---- MODULE Spec2Model ----
(***************************************************************************)
(* Red-black tree Dictionary of Hawaiian sayings (class Dictionary, class  *)
(* Hawaiian).  Nodes live in a heap `nodes` (node i is the i-th node ever  *)
(* constructed); a reference is a node index, Null is the null reference.  *)
(* Strings are sequences of code units and are compared the way the        *)
(* JavaScript operators < and === compare them.  Of Hawaiian.value only    *)
(* value.translation is ever read (by withWord), so a value is modelled by *)
(* its translation.                                                        *)
(***************************************************************************)
EXTENDS Integers, Sequences, FiniteSets

VARIABLES
  nodes,     \* the Hawaiian objects constructed so far
  root,      \* Dictionary.root
  ret,       \* the last call on the dictionary and how it completed
  sayings,   \* history: the keys passed to insert, in call order
  values,    \* history: the values passed to insert, in call order
  trace,     \* history: what fixInsert did during the last insert
  frame      \* the locals of a running insert and where it stands

vars == <<nodes, root, ret, sayings, values, trace, frame>>

\* ---- bounds ----
MaxNodes == 6
NumKeys == 4
\* the searches: trees of up to MaxSearchNodes entries, each with one of
\* NumValues translations, searched for one of NumNeedles words or ""
MaxSearchNodes == 3
\* the deep trees: up to MaxDeepNodes inserts of the first NumDeepKeys keys
MaxDeepNodes == 8
NumDeepKeys == 3
MaxStepNodes == 10
NumStepKeys == 2
NumValues == 2
NumNeedles == 3

Null == 0
Red == TRUE
Black == FALSE

\* ---- strings ----
\* The i-th saying offered to the dictionary: the non-empty strings over the
\* code units {1, 2}, shortest first (1, 2, 11, 12, 21, 22, 111, ...).
RECURSIVE KeyAt(_)
KeyAt(i) ==
  IF i <= 2 THEN <<i>>
  ELSE Append(KeyAt((i - 1) \div 2), ((i - 1) % 2) + 1)

Keys == {KeyAt(i) : i \in 1..NumKeys}

DeepKeys == {KeyAt(i) : i \in 1..NumDeepKeys}

\* value objects, told apart by their translation
Values == {[translation |-> KeyAt(i)] : i \in 1..NumValues}

\* the value given to every entry where no search is made
PlainValue == [translation |-> KeyAt(1)]

\* the words searched for; "" is contained in every string
Needles == {<<>>} \cup {KeyAt(i) : i \in 1..NumNeedles}

\* String.prototype.includes
Includes(s, word) ==
  \E i \in 0..(Len(s) - Len(word)) : SubSeq(s, i + 1, i + Len(word)) = word

Min2(a, b) == IF a < b THEN a ELSE b

\* a < b on strings: at the first differing code unit, else the shorter one
StrLess(a, b) ==
  LET m == Min2(Len(a), Len(b))
      diff == {i \in 1..m : a[i] # b[i]}
  IN IF diff = {} THEN Len(a) < Len(b)
     ELSE LET d == CHOOSE i \in diff : \A j \in diff : i <= j
          IN a[d] < b[d]

\* ---- class Hawaiian ----
Hawaiian(k, v) ==
  [key |-> k, value |-> v, color |-> Red,
   left |-> Null, right |-> Null, parent |-> Null]

\* ---- heap helpers ----
\* what a run of fixInsert has done so far: passes through the loop body,
\* Case B passes, rotations, and whether a pass began after a Case B pass
NoTrace == [passes |-> 0, caseB |-> 0, rots |-> 0, pastB |-> FALSE]

\* a Dictionary value while a method runs: the heap, this.root, whether a
\* TypeError (property access on null/undefined) has been thrown, and the
\* trace of the run
Heap(ns, r) == [nodes |-> ns, root |-> r, thrown |-> FALSE, trace |-> NoTrace]

\* the loop test held and the body is entered
EnterPass(h) ==
  [h EXCEPT !.trace.passes = @ + 1,
            !.trace.pastB = @ \/ h.trace.caseB > 0]

\* the body took the else branch (uncle black or absent)
EnterCaseB(h) == [h EXCEPT !.trace.caseB = @ + 1]

\* a rotation ran to its end
Rotated(h) == [h EXCEPT !.trace.rots = @ + 1]

Throw(h) == [h EXCEPT !.thrown = TRUE]

SetF(h, i, f, v) == [h EXCEPT !.nodes[i][f] = v]

\* ---- rotations ----
\* The statements of a rotation, in order.  `child` is the saved
\* rightChild (rotateLeft) or leftChild (rotateRight); `inner` names the
\* child's field on the side of node ("left" in rotateLeft), `outer` the
\* field of node that held the child ("right" in rotateLeft).

\* node.right = rightChild.left
moveInner(h, node, child, inner, outer) ==
  SetF(h, node, outer, h.nodes[child][inner])

\* reparentInner that leaves the moved subtree's parent link alone
reparentInnerSkip(h, node, child, inner) == h

\* if (rightChild.left) rightChild.left.parent = node
reparentInner(h, node, child, inner) ==
  IF h.nodes[child][inner] # Null
  THEN SetF(h, h.nodes[child][inner], "parent", node)
  ELSE h

\* rightChild.parent = node.parent
liftChild(h, node, child) ==
  SetF(h, child, "parent", h.nodes[node].parent)

\* if (!node.parent) root = rightChild
\* else if (node === node.parent.left) node.parent.left = rightChild
\* else node.parent.right = rightChild
replaceInParent(h, node, child) ==
  IF h.nodes[node].parent = Null THEN [h EXCEPT !.root = child]
  ELSE IF node = h.nodes[h.nodes[node].parent].left
       THEN SetF(h, h.nodes[node].parent, "left", child)
       ELSE SetF(h, h.nodes[node].parent, "right", child)

\* hangNode that forgets rightChild.left = node
hangNodeParentOnly(h, node, child, inner) ==
  SetF(h, node, "parent", child)

\* rightChild.left = node; node.parent = rightChild
hangNode(h, node, child, inner) ==
  SetF(SetF(h, child, inner, node), node, "parent", child)

rotateLeft(h, node) ==
  IF h.nodes[node].right = Null THEN Throw(h)
  ELSE Rotated(hangNode(
         replaceInParent(
           liftChild(
             reparentInner(
               moveInner(h, node, h.nodes[node].right, "left", "right"),
               node, h.nodes[node].right, "left"),
             node, h.nodes[node].right),
           node, h.nodes[node].right),
         node, h.nodes[node].right, "left"))

rotateRight(h, node) ==
  IF h.nodes[node].left = Null THEN Throw(h)
  ELSE Rotated(hangNode(
         replaceInParent(
           liftChild(
             reparentInner(
               moveInner(h, node, h.nodes[node].left, "right", "left"),
               node, h.nodes[node].left, "right"),
             node, h.nodes[node].left),
           node, h.nodes[node].left),
         node, h.nodes[node].left, "right"))

\* ---- fixInsert ----
\* node.parent.parent!.color = true
redGrandparent(h, node) ==
  IF h.nodes[node].parent = Null THEN Throw(h)
  ELSE IF h.nodes[h.nodes[node].parent].parent = Null THEN Throw(h)
  ELSE SetF(h, h.nodes[h.nodes[node].parent].parent, "color", Red)

\* Case A, either side: parent and uncle black, grandparent red (the
\* current node then becomes the grandparent).
recolorA(h, node, uncle) ==
  redGrandparent(
    SetF(SetF(h, h.nodes[node].parent, "color", Black), uncle, "color", Black),
    node)

\* recolorB that leaves node.parent red
recolorBKeepParent(h, node) ==
  IF h.nodes[node].parent = Null THEN Throw(h)
  ELSE redGrandparent(h, node)

\* recolorB that forgets to turn the grandparent red
recolorBKeepGrand(h, node) ==
  IF h.nodes[node].parent = Null THEN Throw(h)
  ELSE SetF(h, h.nodes[node].parent, "color", Black)

\* Case B recolor: node.parent black, node.parent.parent red
recolorB(h, node) ==
  IF h.nodes[node].parent = Null THEN Throw(h)
  ELSE redGrandparent(SetF(h, h.nodes[node].parent, "color", Black), node)

\* this.rotateRight(node.parent!.parent!)
rotateGrandRight(h, node) ==
  IF h.thrown THEN h
  ELSE rotateRight(h, h.nodes[h.nodes[node].parent].parent)

\* this.rotateLeft(node.parent!.parent!)
rotateGrandLeft(h, node) ==
  IF h.thrown THEN h
  ELSE rotateLeft(h, h.nodes[h.nodes[node].parent].parent)

\* Case B once node is the outer child: recolor, rotate at the grandparent
outerLeft(h, node) ==
  [h |-> IF h.thrown THEN h ELSE rotateGrandRight(recolorB(h, node), node),
   node |-> node]

outerRight(h, node) ==
  [h |-> IF h.thrown THEN h ELSE rotateGrandLeft(recolorB(h, node), node),
   node |-> node]

\* caseBLeft whose inner rotation turns the wrong way
caseBLeftRotatesRight(h, node) ==
  IF node = h.nodes[h.nodes[node].parent].right
  THEN outerLeft(rotateRight(h, h.nodes[node].parent), h.nodes[node].parent)
  ELSE outerLeft(h, node)

\* parent is a left child, uncle black or absent
caseBLeft(h, node) ==
  IF node = h.nodes[h.nodes[node].parent].right
  THEN outerLeft(rotateLeft(h, h.nodes[node].parent), h.nodes[node].parent)
  ELSE outerLeft(h, node)

\* parent is a right child, uncle black or absent
caseBRight(h, node) ==
  IF node = h.nodes[h.nodes[node].parent].left
  THEN outerRight(rotateRight(h, h.nodes[node].parent), h.nodes[node].parent)
  ELSE outerRight(h, node)

\* blackenRoot that leaves the root's color alone
blackenRootSkip(h) == h

\* this.root!.color = false
blackenRoot(h) ==
  IF h.root = Null THEN Throw(h) ELSE SetF(h, h.root, "color", Black)

\* the uncle is red
IsRedRef(h, uncle) == uncle # Null /\ h.nodes[uncle].color

\* the body of the while loop when node.parent is the child `side` of the
\* grandparent g and the uncle is g's other child
fixSide(h, node, g, uncle, side) ==
  IF IsRedRef(h, uncle) THEN [h |-> recolorA(h, node, uncle), node |-> g]
  ELSE IF side = "left" THEN caseBLeft(EnterCaseB(h), node)
  ELSE caseBRight(EnterCaseB(h), node)

\* one pass through the body of the while loop
fixStep(h, node) ==
  LET p == h.nodes[node].parent
      g == h.nodes[p].parent
  IN IF g = Null THEN [h |-> Throw(h), node |-> node]
     ELSE IF p = h.nodes[g].left
          THEN fixSide(h, node, g, h.nodes[g].right, "left")
          ELSE fixSide(h, node, g, h.nodes[g].left, "right")

\* the loop test: node.parent && node.parent.color
redParent(h, node) ==
  h.nodes[node].parent # Null /\ h.nodes[h.nodes[node].parent].color

RECURSIVE fixLoop(_, _)

\* back to the loop test after one pass, unless the pass threw
fixAgain(s) == IF s.h.thrown THEN s.h ELSE fixLoop(s.h, s.node)

fixLoop(h, node) ==
  IF redParent(h, node)
  THEN fixAgain(fixStep(EnterPass(h), node))
  ELSE blackenRoot(h)

\* fixInsert whose while loop never runs
fixInsertNoLoop(h, node) == blackenRoot(h)

fixInsert(h, node) == fixLoop(h, node)

\* ---- insert ----
\* the descent of insert: the node under which the new key is linked
\* descendStep that stays on the node it is at
descendStepStay(h, k, current) == current

\* if (saying < current.key) current = current.left
\* else current = current.right
descendStep(h, k, current) ==
  IF StrLess(k, h.nodes[current].key)
  THEN h.nodes[current].left
  ELSE h.nodes[current].right

RECURSIVE descend(_, _, _, _)
descend(h, k, parent, current) ==
  IF current = Null THEN parent
  ELSE descend(h, k, current, descendStep(h, k, current))

\* const newNode = new Hawaiian(saying, value); newNode.parent = parent
construct(h, saying, value, parent) ==
  [h EXCEPT !.nodes = Append(@, [Hawaiian(saying, value) EXCEPT !.parent = parent])]

\* link that hangs every new node on the left of its parent
linkAlwaysLeft(h, newNode, parent) ==
  IF parent = Null THEN [h EXCEPT !.root = newNode]
  ELSE SetF(h, parent, "left", newNode)

\* if (!parent) root = newNode
\* else if (newNode.key < parent.key) parent.left = newNode
\* else parent.right = newNode
link(h, newNode, parent) ==
  IF parent = Null THEN [h EXCEPT !.root = newNode]
  ELSE IF StrLess(h.nodes[newNode].key, h.nodes[parent].key)
       THEN SetF(h, parent, "left", newNode)
       ELSE SetF(h, parent, "right", newNode)

\* insert from the end of the descent on
insertUnder(h, saying, value, parent) ==
  fixInsert(link(construct(h, saying, value, parent), Len(h.nodes) + 1, parent),
            Len(h.nodes) + 1)

insert(h, saying, value) ==
  insertUnder(h, saying, value, descend(h, saying, Null, h.root))

\* ---- queries ----
\* how a call completes
Value(v) == [kind |-> "value", val |-> v]
NullResult == [kind |-> "null", val |-> <<>>]
TypeError == [kind |-> "TypeError", val |-> <<>>]
Void == [kind |-> "void", val |-> <<>>]

\* member that descends to the wrong side
RECURSIVE memberSwapped(_, _, _)
memberSwapped(ns, current, saying) ==
  IF current = Null THEN FALSE
  ELSE IF saying = ns[current].key THEN TRUE
  ELSE IF StrLess(saying, ns[current].key)
       THEN memberSwapped(ns, ns[current].right, saying)
       ELSE memberSwapped(ns, ns[current].left, saying)

RECURSIVE member(_, _, _)
member(ns, current, saying) ==
  IF current = Null THEN FALSE
  ELSE IF saying = ns[current].key THEN TRUE
  ELSE IF StrLess(saying, ns[current].key)
       THEN member(ns, ns[current].left, saying)
       ELSE member(ns, ns[current].right, saying)

\* leftmost that takes no step
leftmostStay(ns, current) == current

\* while (current.left) current = current.left
RECURSIVE leftmost(_, _)
leftmost(ns, current) ==
  IF ns[current].left # Null THEN leftmost(ns, ns[current].left) ELSE current

\* while (current.right) current = current.right
RECURSIVE rightmost(_, _)
rightmost(ns, current) ==
  IF ns[current].right # Null THEN rightmost(ns, ns[current].right) ELSE current

first(ns, r) ==
  IF r = Null THEN NullResult ELSE Value(ns[leftmost(ns, r)].key)

last(ns, r) ==
  IF r = Null THEN NullResult ELSE Value(ns[rightmost(ns, r)].key)

RECURSIVE findNode(_, _, _)
findNode(ns, current, saying) ==
  IF current = Null THEN Null
  ELSE IF saying = ns[current].key THEN current
  ELSE IF StrLess(saying, ns[current].key)
       THEN findNode(ns, ns[current].left, saying)
       ELSE findNode(ns, ns[current].right, saying)

\* while (parent && current === parent.left) { current = parent; parent = parent.parent }
RECURSIVE upWhileLeft(_, _, _)
upWhileLeft(ns, current, parent) ==
  IF parent # Null /\ current = ns[parent].left
  THEN upWhileLeft(ns, parent, ns[parent].parent)
  ELSE parent

\* the upward walk of successor that stops at the first parent
upWhileRightStop(ns, current, parent) == parent

\* while (parent && current === parent.right) { current = parent; parent = parent.parent }
RECURSIVE upWhileRight(_, _, _)
upWhileRight(ns, current, parent) ==
  IF parent # Null /\ current = ns[parent].right
  THEN upWhileRight(ns, parent, ns[parent].parent)
  ELSE parent

predecessor(ns, r, saying) ==
  LET current == findNode(ns, r, saying) IN
  IF current = Null THEN TypeError
  ELSE IF ns[current].left # Null
       THEN Value(ns[rightmost(ns, ns[current].left)].key)
       ELSE LET parent == upWhileLeft(ns, current, ns[current].parent)
            IN IF parent = Null THEN TypeError ELSE Value(ns[parent].key)

successor(ns, r, saying) ==
  LET current == findNode(ns, r, saying) IN
  IF current = Null THEN TypeError
  ELSE IF ns[current].right # Null
       THEN Value(ns[leftmost(ns, ns[current].right)].key)
       ELSE LET parent == upWhileRight(ns, current, ns[current].parent)
            IN IF parent = Null THEN TypeError ELSE Value(ns[parent].key)

\* ---- searches ----
\* meHua's search that visits the node before its left subtree
RECURSIVE meHuaSearchPreOrder(_, _, _)
meHuaSearchPreOrder(ns, node, word) ==
  IF node = Null THEN <<>>
  ELSE (IF Includes(ns[node].key, word)
        THEN <<[saying |-> ns[node].key]>> ELSE <<>>)
       \o meHuaSearchPreOrder(ns, ns[node].left, word)
       \o meHuaSearchPreOrder(ns, ns[node].right, word)

\* meHua's search(node): in-order, keeping the keys that contain word
RECURSIVE meHuaSearch(_, _, _)
meHuaSearch(ns, node, word) ==
  IF node = Null THEN <<>>
  ELSE meHuaSearch(ns, ns[node].left, word)
       \o (IF Includes(ns[node].key, word)
           THEN <<[saying |-> ns[node].key]>> ELSE <<>>)
       \o meHuaSearch(ns, ns[node].right, word)

meHua(ns, r, word) == Value(meHuaSearch(ns, r, word))

\* withWord's search(node): in-order, keeping the keys whose translation
\* contains word
RECURSIVE withWordSearch(_, _, _)
withWordSearch(ns, node, word) ==
  IF node = Null THEN <<>>
  ELSE withWordSearch(ns, ns[node].left, word)
       \o (IF Includes(ns[node].value.translation, word)
           THEN <<[saying |-> ns[node].key]>> ELSE <<>>)
       \o withWordSearch(ns, ns[node].right, word)

withWord(ns, r, word) == Value(withWordSearch(ns, r, word))

\* ---- the state machine ----
Call(op, arg, res) == [op |-> op, arg |-> arg, kind |-> res.kind, val |-> res.val]

\* no call is running
Idle ==
  [pc |-> "idle", saying |-> <<>>, value |-> PlainValue,
   current |-> Null, parent |-> Null, node |-> Null]

Init ==
  /\ nodes = <<>>
  /\ root = Null
  /\ ret = Call("new", <<>>, Void)
  /\ sayings = <<>>
  /\ values = <<>>
  /\ trace = NoTrace
  /\ frame = Idle

\* tree.insert(k, v) with k, v from the given inputs, on a dictionary of
\* fewer than max entries
InsertCall(keys, vals, max) ==
  \E k \in keys, v \in vals :
    /\ ret.op \in {"new", "insert"}
    /\ Len(nodes) < max
    /\ LET h == insert(Heap(nodes, root), k, v) IN
         /\ nodes' = h.nodes
         /\ root' = h.root
         /\ ret' = Call("insert", k, IF h.thrown THEN TypeError ELSE Void)
         /\ trace' = h.trace
    /\ sayings' = Append(sayings, k)
    /\ values' = Append(values, v)
    /\ UNCHANGED frame

\* The calls are made in the order of the script that drives the
\* dictionary: every tree.insert, then member, first, last, successor and
\* predecessor.  The queries leave the tree untouched, so every tree that
\* inserts can build meets every query with every argument.
Insert == InsertCall(Keys, {PlainValue}, MaxNodes)

Member ==
  \E k \in Keys :
    /\ ret.op \in {"new", "insert"}
    /\ ret' = Call("member", k, Value(member(nodes, root, k)))
    /\ UNCHANGED <<nodes, root, sayings, values, trace, frame>>

First ==
  /\ ret.op = "member"
  /\ ret' = Call("first", <<>>, first(nodes, root))
  /\ UNCHANGED <<nodes, root, sayings, values, trace, frame>>

Last ==
  /\ ret.op = "first"
  /\ ret' = Call("last", <<>>, last(nodes, root))
  /\ UNCHANGED <<nodes, root, sayings, values, trace, frame>>

Successor ==
  \E k \in Keys :
    /\ ret.op = "last"
    /\ ret' = Call("successor", k, successor(nodes, root, k))
    /\ UNCHANGED <<nodes, root, sayings, values, trace, frame>>

Predecessor ==
  \E k \in Keys :
    /\ ret.op = "successor"
    /\ ret' = Call("predecessor", k, predecessor(nodes, root, k))
    /\ UNCHANGED <<nodes, root, sayings, values, trace, frame>>

Next ==
  \/ Insert
  \/ Member
  \/ First
  \/ Last
  \/ Successor
  \/ Predecessor

Spec == Init /\ [][Next]_vars

\* The searches, on dictionaries whose entries carry every translation:
\* every tree.insert, then meHua, then withWord.
InsertSearch == InsertCall(Keys, Values, MaxSearchNodes)

MeHua ==
  \E w \in Needles :
    /\ ret.op \in {"new", "insert"}
    /\ ret' = Call("meHua", w, meHua(nodes, root, w))
    /\ UNCHANGED <<nodes, root, sayings, values, trace, frame>>

WithWord ==
  \E w \in Needles :
    /\ ret.op = "meHua"
    /\ ret' = Call("withWord", w, withWord(nodes, root, w))
    /\ UNCHANGED <<nodes, root, sayings, values, trace, frame>>

NextSearch ==
  \/ InsertSearch
  \/ MeHua
  \/ WithWord

SpecSearch == Init /\ [][NextSearch]_vars

\* Inserts alone, far enough for fixInsert to pass through its loop body
\* more than once.
InsertDeep == InsertCall(DeepKeys, {PlainValue}, MaxDeepNodes)

NextDeep == InsertDeep

SpecDeep == Init /\ [][NextDeep]_vars

\* tree.insert one step at a time: one action for each turn of the descent
\* loop, one for the construction and linking of the new node, one for each
\* pass through the body of the fixInsert loop, and one for the failing
\* loop test with the statement after the loop.
StepKeys == {KeyAt(i) : i \in 1..NumStepKeys}

\* let parent = null; let current = this.root
BeginInsert ==
  \E k \in StepKeys :
    /\ frame.pc = "idle"
    /\ Len(nodes) < MaxStepNodes
    /\ frame' = [Idle EXCEPT !.pc = "descend", !.saying = k, !.current = root]
    /\ UNCHANGED <<nodes, root, ret, sayings, values, trace>>

\* while (current) { parent = current; ... }
DescendStep ==
  /\ frame.pc = "descend"
  /\ frame.current # Null
  /\ frame' = [frame EXCEPT
                 !.parent = frame.current,
                 !.current = descendStep(Heap(nodes, root), frame.saying,
                                         frame.current)]
  /\ UNCHANGED <<nodes, root, ret, sayings, values, trace>>

\* the descent has reached a null child: link the new node.  The node is
\* constructed before the descent, but nothing can reach it until here.
LinkStep ==
  /\ frame.pc = "descend"
  /\ frame.current = Null
  /\ nodes' = link(construct(Heap(nodes, root), frame.saying, frame.value,
                             frame.parent),
                   Len(nodes) + 1, frame.parent).nodes
  /\ root' = link(construct(Heap(nodes, root), frame.saying, frame.value,
                            frame.parent),
                  Len(nodes) + 1, frame.parent).root
  /\ frame' = [frame EXCEPT !.pc = "fix", !.node = Len(nodes) + 1]
  /\ trace' = NoTrace
  /\ UNCHANGED <<ret, sayings, values>>

\* the call returns, or ends with the TypeError it threw
Return(h) ==
  /\ nodes' = h.nodes
  /\ root' = h.root
  /\ trace' = h.trace
  /\ ret' = Call("insert", frame.saying, IF h.thrown THEN TypeError ELSE Void)
  /\ sayings' = Append(sayings, frame.saying)
  /\ values' = Append(values, frame.value)
  /\ frame' = Idle

\* the dictionary after one pass, and the loop's node moved to s.node
Continue(s) ==
  /\ nodes' = s.h.nodes
  /\ root' = s.h.root
  /\ trace' = s.h.trace
  /\ frame' = [frame EXCEPT !.node = s.node]
  /\ UNCHANGED <<ret, sayings, values>>

PassDone(s) == IF s.h.thrown THEN Return(s.h) ELSE Continue(s)

\* the dictionary of the running call, with what fixInsert did so far
Running == [Heap(nodes, root) EXCEPT !.trace = trace]

\* the loop test holds: one pass through the body of the while loop
FixPass ==
  /\ frame.pc = "fix"
  /\ redParent(Running, frame.node)
  /\ \E h \in {EnterPass(Running)} :
       \E s \in {fixStep(h, frame.node)} : PassDone(s)

\* the loop test fails: this.root!.color = false, and insert returns
FixExit ==
  /\ frame.pc = "fix"
  /\ ~redParent(Running, frame.node)
  /\ \E h \in {blackenRoot(Running)} : Return(h)

\* the steps of a running call
RunStep ==
  \/ DescendStep
  \/ LinkStep
  \/ FixPass
  \/ FixExit

NextSteps ==
  \/ BeginInsert
  \/ RunStep

\* a call that has begun keeps running: its steps are the only code of
\* the single thread
SpecSteps == Init /\ [][NextSteps]_vars /\ WF_vars(RunStep)

\* ---- tree measures ----
Range(q) == {q[i] : i \in 1..Len(q)}

InsertedKeys == Range(sayings)

Distinct == Cardinality(InsertedKeys) = Len(sayings)

StrLE(a, b) == a = b \/ StrLess(a, b)

MinKey == CHOOSE k \in InsertedKeys : \A j \in InsertedKeys : StrLE(k, j)

MaxKey == CHOOSE k \in InsertedKeys : \A j \in InsertedKeys : StrLE(j, k)

\* the nodes of the subtree hanging from reference n
RECURSIVE Subtree(_, _)
Subtree(ns, n) ==
  IF n = Null THEN {}
  ELSE {n} \cup Subtree(ns, ns[n].left) \cup Subtree(ns, ns[n].right)

TreeNodes == Subtree(nodes, root)

IsRed(ns, n) == n # Null /\ ns[n].color

\* black nodes on every path from n down to a null reference, or -1 when
\* two such paths disagree
RECURSIVE BlackHeight(_, _)
BlackHeight(ns, n) ==
  IF n = Null THEN 0
  ELSE LET l == BlackHeight(ns, ns[n].left)
           r == BlackHeight(ns, ns[n].right)
       IN IF l < 0 \/ r < 0 \/ l # r THEN -1
          ELSE l + (IF ns[n].color THEN 0 ELSE 1)

\* nodes on the longest path from n down to a null reference
RECURSIVE Height(_, _)
Height(ns, n) ==
  IF n = Null THEN 0
  ELSE LET l == Height(ns, ns[n].left)
           r == Height(ns, ns[n].right)
       IN 1 + (IF l < r THEN r ELSE l)

RECURSIVE Pow2(_)
Pow2(e) == IF e = 0 THEN 1 ELSE 2 * Pow2(e - 1)

\* ---- claims ----

\* C1: after every completed insert no red node has a red child.
NoRedRed ==
  \A n \in TreeNodes :
    nodes[n].color => ~IsRed(nodes, nodes[n].left) /\ ~IsRed(nodes, nodes[n].right)

\* a red node with a child of its own, below a root that a rotation installed
NoRedRedWitness ==
  /\ ret.op = "insert"
  /\ root # Null /\ root # 1
  /\ \E n \in TreeNodes : nodes[n].color /\ nodes[n].left # Null /\ nodes[n].right # Null

\* C2: after every completed insert, for every node all paths from it down
\* to a null reference hold the same number of black nodes.
BlackHeightUniform ==
  \A n \in TreeNodes : BlackHeight(nodes, n) >= 0

\* black height 2 at the root of a tree that also holds red nodes
BlackHeightWitness ==
  /\ ret.op = "insert"
  /\ BlackHeight(nodes, root) = 2
  /\ \E n \in TreeNodes : nodes[n].color
  /\ \E n \in TreeNodes : n # root /\ ~nodes[n].color

\* C3: after every completed insert the root exists and is black.
RootBlack ==
  sayings # <<>> => root # Null /\ nodes[root].color = Black

\* the insert just completed recolored a grandparent red that is the root
RootBlackWitness ==
  /\ ret.op = "insert"
  /\ Len(nodes) = 4
  /\ root = 1
  /\ nodes[root].color = Black
  /\ \A n \in TreeNodes \ {root, 4} : ~nodes[n].color

\* C4: in every tree reached by inserts, repeated keys included, all keys of
\* a node's left subtree are strictly less than its key and all keys of its
\* right subtree strictly greater.
StrictOrder ==
  \A n \in TreeNodes :
    /\ \A m \in Subtree(nodes, nodes[n].left) : StrLess(nodes[m].key, nodes[n].key)
    /\ \A m \in Subtree(nodes, nodes[n].right) : StrLess(nodes[n].key, nodes[m].key)

\* C5: after n inserts the height h satisfies 2^h <= (n+1)^2.
HeightBound ==
  Pow2(Height(nodes, root)) <= (Len(sayings) + 1) * (Len(sayings) + 1)

\* six inserts that leave a tree of height 4
HeightBoundWitness ==
  /\ ret.op = "insert"
  /\ Len(sayings) = 6
  /\ Height(nodes, root) = 4

FirstLastCorrect ==
  /\ ret.op = "first" =>
       IF sayings = <<>> THEN ret.kind = "null"
       ELSE ret.kind = "value" /\ ret.val = MinKey
  /\ ret.op = "last" =>
       IF sayings = <<>> THEN ret.kind = "null"
       ELSE ret.kind = "value" /\ ret.val = MaxKey

\* first() descended two levels to reach the minimum
FirstLastWitness ==
  /\ ret.op = "first"
  /\ ret.kind = "value"
  /\ root # Null
  /\ nodes[root].left # Null
  /\ nodes[nodes[root].left].left # Null
  /\ ret.val = nodes[nodes[nodes[root].left].left].key

\* C8: with distinct keys inserted, successor(k) of an inserted k that is
\* not the maximum is the smallest inserted key greater than k, and
\* predecessor(k) of an inserted k that is not the minimum is the largest
\* inserted key less than k.
SuccPredCorrect ==
  /\ (Distinct /\ ret.op = "successor" /\ ret.arg \in InsertedKeys /\ ret.arg # MaxKey) =>
       /\ ret.kind = "value"
       /\ ret.val \in InsertedKeys
       /\ StrLess(ret.arg, ret.val)
       /\ \A j \in InsertedKeys : ~(StrLess(ret.arg, j) /\ StrLess(j, ret.val))
  /\ (Distinct /\ ret.op = "predecessor" /\ ret.arg \in InsertedKeys /\ ret.arg # MinKey) =>
       /\ ret.kind = "value"
       /\ ret.val \in InsertedKeys
       /\ StrLess(ret.val, ret.arg)
       /\ \A j \in InsertedKeys : ~(StrLess(ret.val, j) /\ StrLess(j, ret.arg))

\* successor walked up past the node's own parent to reach the answer
SuccPredWitness ==
  /\ Distinct
  /\ ret.op = "successor"
  /\ ret.kind = "value"
  /\ LET n == findNode(nodes, root, ret.arg) IN
       /\ n # Null
       /\ nodes[n].right = Null
       /\ nodes[n].parent # Null
       /\ n = nodes[nodes[n].parent].right
       /\ ret.val # nodes[nodes[n].parent].key

\* C9: predecessor(k) and successor(k) with k not in the tree complete with
\* an explicit NotFound result.
AbsentKeyNotFound ==
  (ret.op \in {"predecessor", "successor"} /\ ret.arg \notin InsertedKeys) =>
    ret.kind = "NotFound"

\* C10: predecessor of the minimum key completes with NoPredecessor and
\* successor of the maximum key with NoSuccessor.
BoundaryKeyExplicit ==
  /\ (ret.op = "predecessor" /\ sayings # <<>> /\ ret.arg = MinKey) =>
       ret.kind = "NoPredecessor"
  /\ (ret.op = "successor" /\ sayings # <<>> /\ ret.arg = MaxKey) =>
       ret.kind = "NoSuccessor"

\* the calls tree.insert(k, v) made so far
Inserts == 1..Len(sayings)

\* the keys of a search result, in the order returned
SayingsOf(res) == [i \in 1..Len(res) |-> res[i].saying]

\* q is the ascending list of the keys of the inserts in `hits`: the same
\* keys, one element for each insert, never descending, and strictly
\* ascending when no key was inserted twice
AscendingListOf(q, hits) ==
  /\ Range(q) = {sayings[i] : i \in hits}
  /\ Len(q) = Cardinality(hits)
  /\ \A i, j \in 1..Len(q) : i < j => StrLE(q[i], q[j])
  /\ Distinct => \A i, j \in 1..Len(q) : i < j => StrLess(q[i], q[j])

\* C11: meHua(needle) returns exactly the inserted keys that contain needle
\* and withWord(needle) exactly the inserted keys whose value.translation
\* contains needle, both in ascending key order.
SearchCorrect ==
  /\ ret.op = "meHua" =>
       AscendingListOf(SayingsOf(ret.val),
                       {i \in Inserts : Includes(sayings[i], ret.arg)})
  /\ ret.op = "withWord" =>
       AscendingListOf(SayingsOf(ret.val),
                       {i \in Inserts : Includes(values[i].translation, ret.arg)})

\* withWord kept two of three entries of a tree that a rotation re-rooted,
\* and they are not the two whose keys contain the word
SearchWitness ==
  /\ ret.op = "withWord"
  /\ ret.arg # <<>>
  /\ Len(nodes) = 3
  /\ root # 1
  /\ Len(ret.val) = 2
  /\ Distinct
  /\ ret.val # meHuaSearch(nodes, root, ret.arg)

\* how many of the nodes in S hold the key and value of entry e
EntryCount(ns, S, e) ==
  Cardinality({i \in S : ns[i].key = e.key /\ ns[i].value = e.value})

Entry(k, v) == [key |-> k, value |-> v]

\* C12: every insert(k, v) adds exactly one node: the (key, value) pairs
\* held by the nodes reachable from the root are those held before plus
\* (k, v), also when k is already present; no node is lost and no node's
\* key or value changes.
InsertAddsOne ==
  [][sayings' # sayings =>
       LET before == Subtree(nodes, root)
           after  == Subtree(nodes', root')
           added  == Entry(sayings'[Len(sayings')], values'[Len(values')])
       IN /\ before \subseteq after
          /\ Cardinality(after) = Cardinality(before) + 1
          /\ \A i \in after :
               LET e == Entry(nodes'[i].key, nodes'[i].value) IN
               EntryCount(nodes', after, e) =
                 EntryCount(nodes, before, e) + (IF e = added THEN 1 ELSE 0)
          /\ \A i \in 1..Len(nodes) :
               /\ nodes'[i].key = nodes[i].key
               /\ nodes'[i].value = nodes[i].value
  ]_vars

\* an insert of a key already present that rotated twice and left every
\* node reachable
InsertAddsOneWitness ==
  /\ ret.op = "insert"
  /\ trace.rots = 2
  /\ Cardinality({i \in Inserts : sayings[i] = ret.arg}) = 2
  /\ Len(nodes) >= 5
  /\ TreeNodes = 1..Len(nodes)

\* C13: insert never fails: insert and fixInsert dereference no absent
\* node; when the loop body runs node.parent.parent exists, and every
\* rotateLeft / rotateRight is called on a node with a right / left child.
InsertNeverFails ==
  ret.op = "insert" => ret.kind = "void"

\* an insert whose fixInsert recolored (Case A), moved up two levels, and
\* then rotated twice (Case B from the inner side)
InsertNeverFailsWitness ==
  /\ ret.op = "insert"
  /\ ret.kind = "void"
  /\ trace.passes = 2
  /\ trace.caseB = 1
  /\ trace.rots = 2

\* the nodes met by an in-order walk from n, in order; the walk gives up
\* (and yields Null) below `fuel` levels, deeper than any tree of the heap
RECURSIVE InOrder(_, _, _)
InOrder(ns, n, fuel) ==
  IF n = Null THEN <<>>
  ELSE IF fuel = 0 THEN <<Null>>
  ELSE InOrder(ns, ns[n].left, fuel - 1) \o <<n>>
       \o InOrder(ns, ns[n].right, fuel - 1)

InOrderOf(ns, r) == InOrder(ns, r, Len(ns) + 1)

KeysOf(ns, q) == [i \in 1..Len(q) |-> IF q[i] = Null THEN <<>> ELSE ns[q[i]].key]

\* h2 is the dictionary h after a rotation that kept the in-order key
\* sequence and the set of reachable nodes
SameOrder(h, h2) ==
  /\ ~h2.thrown
  /\ KeysOf(h2.nodes, InOrderOf(h2.nodes, h2.root))
       = KeysOf(h.nodes, InOrderOf(h.nodes, h.root))
  /\ Range(InOrderOf(h2.nodes, h2.root)) = Range(InOrderOf(h.nodes, h.root))

\* C14: rotateLeft on a node with a right child and rotateRight on a node
\* with a left child leave the in-order key sequence of the whole tree and
\* the set of nodes reachable from the root unchanged.
RotationsKeepOrder ==
  \A n \in 1..Len(nodes) :
    /\ nodes[n].right # Null =>
         SameOrder(Heap(nodes, root), rotateLeft(Heap(nodes, root), n))
    /\ nodes[n].left # Null =>
         SameOrder(Heap(nodes, root), rotateRight(Heap(nodes, root), n))

\* a tree that fixInsert rotated twice, with a node below the root whose
\* right child has a left subtree for rotateLeft to move across
RotationsWitness ==
  /\ ret.op = "insert"
  /\ trace.rots = 2
  /\ \E n \in 1..Len(nodes) :
       /\ n # root
       /\ nodes[n].right # Null
       /\ nodes[nodes[n].right].left # Null
       /\ nodes[nodes[n].right].right # Null
       /\ nodes[n].left # Null

\* C15: a Case B pass of the fixInsert loop is always the last pass: the
\* loop test fails right after it, so one insert runs at most one Case B
\* pass and at most two rotations.
CaseBIsLast ==
  ret.op = "insert" =>
    /\ ~trace.pastB
    /\ trace.caseB <= 1
    /\ trace.rots <= 2

\* an insert whose loop ran a Case A pass and then a Case B pass with a
\* single rotation
CaseBIsLastWitness ==
  /\ ret.op = "insert" /\ ret.kind = "void"
  /\ trace.passes = 2 /\ trace.caseB = 1 /\ trace.rots = 1
  /\ ~trace.pastB

\* C17: after every completed insert parent and child links agree: the
\* root's parent is null; a node's left or right child has that node as its
\* parent; every node other than the root is the left or right child of its
\* parent; and the links form a tree: the walk from the root meets every
\* node exactly once (no node on two paths, no cycle).
LinksAgree ==
  ret.op = "insert" =>
    /\ root # Null /\ nodes[root].parent = Null
    /\ \A n \in 1..Len(nodes) :
         /\ nodes[n].left # Null => nodes[nodes[n].left].parent = n
         /\ nodes[n].right # Null => nodes[nodes[n].right].parent = n
         /\ n # root =>
              /\ nodes[n].parent # Null
              /\ \/ nodes[nodes[n].parent].left = n
                 \/ nodes[nodes[n].parent].right = n
    /\ Len(InOrderOf(nodes, root)) = Len(nodes)
    /\ Range(InOrderOf(nodes, root)) = 1..Len(nodes)

\* a full tree after an insert that rotated twice, so that a rotation moved
\* a non-empty inner subtree to a new parent on the way
LinksAgreeWitness ==
  /\ ret.op = "insert" /\ ret.kind = "void"
  /\ Len(nodes) = MaxDeepNodes
  /\ trace.rots = 2
  /\ \E n \in 1..Len(nodes) :
       /\ n # root
       /\ nodes[n].left # Null /\ nodes[n].right # Null

\* the number of parent links from n up to the root
RECURSIVE Depth(_, _, _)
Depth(ns, n, fuel) ==
  IF n = Null \/ fuel = 0 THEN 0
  ELSE IF ns[n].parent = Null THEN 0
  ELSE 1 + Depth(ns, ns[n].parent, fuel - 1)

\* this step is a Case A pass of the fixInsert loop
CaseAPass ==
  /\ frame.pc = "fix" /\ frame'.pc = "fix"
  /\ trace'.passes = trace.passes + 1
  /\ trace'.caseB = trace.caseB

\* C16: every insert call terminates: the descent reaches a null child and
\* the fixInsert loop exits, and each Case A pass moves the loop's node to
\* its grandparent, strictly nearer the root.
InsertTerminates ==
  /\ (frame.pc # "idle") ~> (frame.pc = "idle")
  /\ [][CaseAPass =>
          /\ frame'.node = nodes[nodes[frame.node].parent].parent
          /\ Depth(nodes', frame'.node, Len(nodes))
               < Depth(nodes, frame.node, Len(nodes))]_vars

\* an insert has returned after a descent of four levels or more and two
\* Case A passes, each of which moved the loop's node two levels up
InsertTerminatesWitness ==
  /\ frame.pc = "idle"
  /\ ret.op = "insert" /\ ret.kind = "void"
  /\ trace.passes = 2 /\ trace.caseB = 0

====
